---- MODULE Spec2Model ----
(***************************************************************************)
(* Model of the insight engine of clarity (core/engine/analyzer.py).       *)
(*                                                                         *)
(* Spec        : one run of InsightAnalyzer.analyze_user_data, with the    *)
(*               two asyncio.gather fan-outs, the pipeline stages, the     *)
(*               session (add / commit) and the returned result.           *)
(***************************************************************************)
EXTENDS Integers, Naturals, Sequences, FiniteSets, TLC

(***************************************************************************)
(* Bounds of the model.                                                    *)
(***************************************************************************)
MaxDate == 2
MaxRecords == 1
MaxInsights == 3
MaxConfidence == 1
MaxRecs == 3
MaxPatterns == 3
MaxStrength == 2
MaxTx == 6
MaxGenPatterns == 2
MaxRows == 3
MaxBudgets == 2
MaxColumn == 11
MaxGroups == 2
MaxHours == 2

(***************************************************************************)
(* Program constants.                                                      *)
(***************************************************************************)
min_data_points == 10
DefaultWindowDays == 30

None == -1000

Domains == {"behavior", "financial", "temporal"}

Dates == 0..MaxDate
DateInputs == Dates \cup {None}
\* numbers of usable records a fetch can find for a domain
RecordCounts == (0..MaxRecords) \cup {min_data_points}

(***************************************************************************)
(* analyze_user_data, lines 82-83: `x or default` on the two optional      *)
(* dates (a datetime is always truthy, so only None takes the default).    *)
(***************************************************************************)
EffectiveEnd(end_date, utcnow) == IF end_date = None THEN utcnow ELSE end_date

EffectiveStart(start_date, effEnd) ==
    IF start_date = None THEN effEnd - DefaultWindowDays ELSE start_date

\* line 85 negated: the run goes on only when start_date < end_date
ValidRangeLax(s, e) == s <= e

ValidRange(s, e) == s < e

(***************************************************************************)
(* The dictionaries returned by the three get_user_data: what len() of     *)
(* each is (the number of its keys), whatever the number of records.       *)
(***************************************************************************)
DataLen(d) ==
    CASE d = "behavior" -> 5
      [] d = "financial" -> 3
      [] d = "temporal" -> 3

\* _check_data_sufficiency: all(len(data) >= min_data_points ...)
CheckDataSufficiency(data) ==
    \A d \in Domains : data[d] # None => DataLen(d) >= min_data_points

(***************************************************************************)
(* asyncio.gather over three tasks, without return_exceptions: the         *)
(* awaiting coroutine resumes with the results once every task is done,    *)
(* and with the exception as soon as one task has raised.  The tasks are   *)
(* queued before the awaiting coroutine suspends, so each of them has had  *)
(* its first step when the coroutine resumes.  gather never cancels the    *)
(* remaining tasks.                                                        *)
(***************************************************************************)
\* the tasks in the order they are passed to gather
TaskOrder == <<"behavior", "financial", "temporal">>

\* a list of results in the order the tasks completed
GatherResultsByCompletion(results, completion) ==
    [i \in 1..3 |-> results[completion[i]]]

\* the list gather returns: the results in the order of the tasks passed
\* to it, whatever the order of completion
GatherResults(results, completion) ==
    [i \in 1..3 |-> results[TaskOrder[i]]]

\* behavior_x, financial_x, temporal_x = <list>
Unpack(list) ==
    [d \in Domains |-> list[CHOOSE i \in 1..3 : TaskOrder[i] = d]]

\* the completion order of the tasks of the gather being awaited
Completed(order, d, awaited) == IF awaited THEN Append(order, d) ELSE order

GatherCompleteAny(tasks) == \E d \in Domains : tasks[d] = "done"

GatherComplete(tasks) == \A d \in Domains : tasks[d] = "done"

GatherFailed(tasks) == \E d \in Domains : tasks[d] = "failed"

AllStarted(tasks) == \A d \in Domains : tasks[d] # "pending"

\* lines 117-121: each analyze() is created with the data that was fetched
AnalyzeArgsDropped(data, sufficient) ==
    IF sufficient THEN data ELSE [d \in Domains |-> None]

AnalyzeArgs(data, sufficient) == data

\* the pattern list an analyzer returns for its domain data (abstract)
PatternsOf(d, data) == <<d, data>>

StageOrder ==
    <<"fetch", "analyze", "correlate", "insights", "recommendations",
      "score", "persist", "return">>

VARIABLES
    pc,             \* position of analyze_user_data
    effStart,       \* start_date after line 83
    effEnd,         \* end_date after line 82
    include_raw_data,
    fetchTask,      \* state of each get_user_data task
    fetched,        \* what each get_user_data returned
    warned,         \* logger.warning("analyzer.insufficient_data") called
    analyzeTask,    \* state of each analyze task
    analyzeInput,   \* the argument each analyze() was created with
    patterns,       \* what each analyze() returned
    correlatorArgs, \* the arguments of _combine_patterns
    added,          \* number of session.add(analysis) calls
    committed,      \* number of successful session.commit() calls
    returned,       \* an AnalysisResult was returned to the caller
    raised,         \* the exception that left analyze_user_data
    trace,          \* the stages entered so far, in order
    lateWork,       \* tasks that completed their work after a sibling failed
    finished,       \* the tasks of the awaited gather, in completion order
    fnInput,        \* argument list of the function under check
    fnOutput,       \* its result
    fnPhase         \* "input" while the argument is built, then "applied"

runVars ==
    <<pc, effStart, effEnd, include_raw_data, fetchTask, fetched, warned,
      analyzeTask, analyzeInput, patterns, correlatorArgs, added, committed,
      returned, raised, trace, lateWork, finished>>

fnVars == <<fnInput, fnOutput, fnPhase>>

vars == <<runVars, fnVars>>

RunInit ==
    /\ pc = "idle"
    /\ effStart = None
    /\ effEnd = None
    /\ include_raw_data = FALSE
    /\ fetchTask = [d \in Domains |-> "none"]
    /\ fetched = [d \in Domains |-> None]
    /\ warned = FALSE
    /\ analyzeTask = [d \in Domains |-> "none"]
    /\ analyzeInput = [d \in Domains |-> None]
    /\ patterns = [d \in Domains |-> <<>>]
    /\ correlatorArgs = <<>>
    /\ added = 0
    /\ committed = 0
    /\ returned = FALSE
    /\ raised = "none"
    /\ trace = <<>>
    /\ lateWork = {}
    /\ finished = <<>>

FnInit ==
    /\ fnInput = <<>>
    /\ fnOutput = <<>>
    /\ fnPhase = "input"

Init == RunInit /\ FnInit

\* the except clause of analyze_user_data: count, log, re-raise
Fail(exc) ==
    /\ pc' = "failed"
    /\ raised' = exc

(***************************************************************************)
(* Lines 78-99: defaults, validation, creation of the three fetches.       *)
(***************************************************************************)
Start ==
    /\ pc = "idle"
    /\ \E start_date \in DateInputs, end_date \in DateInputs,
          utcnow \in Dates, raw \in BOOLEAN :
         LET e == EffectiveEnd(end_date, utcnow)
             s == EffectiveStart(start_date, e)
         IN /\ effEnd' = e
            /\ effStart' = s
            /\ include_raw_data' = raw
            /\ IF ValidRange(s, e)
               THEN /\ pc' = "fetching"
                    /\ fetchTask' = [d \in Domains |-> "pending"]
                    /\ trace' = Append(trace, "fetch")
                    /\ UNCHANGED raised
               ELSE /\ Fail("ValueError")
                    /\ UNCHANGED <<fetchTask, trace>>
    /\ UNCHANGED <<fetched, warned, analyzeTask, analyzeInput, patterns,
                   correlatorArgs, added, committed, returned, lateWork,
                   finished>>
    /\ UNCHANGED fnVars

(***************************************************************************)
(* One get_user_data task: it starts, suspends on the repository, and      *)
(* later (once the three queued tasks have had their first step) returns   *)
(* its dictionary or raises.  The task is driven by the event loop,        *)
(* whatever analyze_user_data is doing.                                    *)
(***************************************************************************)
FetchStart(d) ==
    /\ fetchTask[d] = "pending"
    /\ fetchTask' = [fetchTask EXCEPT ![d] = "running"]
    /\ UNCHANGED <<pc, effStart, effEnd, include_raw_data, fetched, warned,
                   analyzeTask, analyzeInput, patterns, correlatorArgs,
                   added, committed, returned, raised, trace, lateWork,
                   finished>>
    /\ UNCHANGED fnVars

FetchFinish(d) ==
    /\ fetchTask[d] = "running"
    /\ AllStarted(fetchTask)
    /\ \E ok \in BOOLEAN, n \in RecordCounts :
         IF ok
         THEN /\ fetchTask' = [fetchTask EXCEPT ![d] = "done"]
              /\ fetched' = [fetched EXCEPT ![d] = n]
              /\ lateWork' = IF GatherFailed(fetchTask)
                             THEN lateWork \cup {<<"fetch", d>>}
                             ELSE lateWork
              /\ finished' = Completed(finished, d, pc = "fetching")
         ELSE /\ fetchTask' = [fetchTask EXCEPT ![d] = "failed"]
              /\ UNCHANGED <<fetched, lateWork, finished>>
    /\ UNCHANGED <<pc, effStart, effEnd, include_raw_data, warned,
                   analyzeTask, analyzeInput, patterns, correlatorArgs,
                   added, committed, returned, raised, trace>>
    /\ UNCHANGED fnVars

(***************************************************************************)
(* Lines 101-121: the first gather returns; sufficiency check; creation    *)
(* of the three analyses.                                                  *)
(***************************************************************************)
FetchJoin ==
    /\ pc = "fetching"
    /\ GatherComplete(fetchTask)
    /\ warned' = ~CheckDataSufficiency(fetched)
    /\ analyzeInput' = AnalyzeArgs(Unpack(GatherResults(fetched, finished)),
                                   CheckDataSufficiency(fetched))
    /\ analyzeTask' = [d \in Domains |-> "pending"]
    /\ finished' = <<>>
    /\ pc' = "analyzing"
    /\ trace' = Append(trace, "analyze")
    /\ UNCHANGED <<effStart, effEnd, include_raw_data, fetchTask, fetched,
                   patterns, correlatorArgs, added, committed, returned,
                   raised, lateWork>>
    /\ UNCHANGED fnVars

FetchFail ==
    /\ pc = "fetching"
    /\ GatherFailed(fetchTask)
    /\ AllStarted(fetchTask)
    /\ Fail("Exception")
    /\ UNCHANGED <<effStart, effEnd, include_raw_data, fetchTask, fetched,
                   warned, analyzeTask, analyzeInput, patterns,
                   correlatorArgs, added, committed, returned, trace,
                   lateWork, finished>>
    /\ UNCHANGED fnVars

(***************************************************************************)
(* One analyze task: no suspension point inside, it runs to its return     *)
(* or to its raise in one step of the event loop.                          *)
(***************************************************************************)
AnalyzeRun(d) ==
    /\ analyzeTask[d] = "pending"
    /\ \E ok \in BOOLEAN :
         IF ok
         THEN /\ analyzeTask' = [analyzeTask EXCEPT ![d] = "done"]
              /\ patterns' = [patterns EXCEPT ![d] = PatternsOf(d, analyzeInput[d])]
              /\ lateWork' = IF GatherFailed(analyzeTask)
                             THEN lateWork \cup {<<"analyze", d>>}
                             ELSE lateWork
              /\ finished' = Completed(finished, d, pc = "analyzing")
         ELSE /\ analyzeTask' = [analyzeTask EXCEPT ![d] = "failed"]
              /\ UNCHANGED <<patterns, lateWork, finished>>
    /\ UNCHANGED <<pc, effStart, effEnd, include_raw_data, fetchTask, fetched,
                   warned, analyzeInput, correlatorArgs, added, committed,
                   returned, raised, trace>>
    /\ UNCHANGED fnVars

\* lines 123-132: the second gather returns, _combine_patterns is called
AnalyzeJoin ==
    /\ pc = "analyzing"
    /\ GatherComplete(analyzeTask)
    /\ correlatorArgs' = GatherResults(patterns, finished)
    /\ pc' = "correlate"
    /\ trace' = Append(trace, "correlate")
    /\ UNCHANGED <<effStart, effEnd, include_raw_data, fetchTask, fetched,
                   warned, analyzeTask, analyzeInput, patterns, added,
                   committed, returned, raised, lateWork,
                   finished>>
    /\ UNCHANGED fnVars

AnalyzeFail ==
    /\ pc = "analyzing"
    /\ GatherFailed(analyzeTask)
    /\ AllStarted(analyzeTask)
    /\ Fail("Exception")
    /\ UNCHANGED <<effStart, effEnd, include_raw_data, fetchTask, fetched,
                   warned, analyzeTask, analyzeInput, patterns,
                   correlatorArgs, added, committed, returned, trace,
                   lateWork, finished>>
    /\ UNCHANGED fnVars

(***************************************************************************)
(* Lines 130-138: the synchronous stages, each returns or raises.          *)
(***************************************************************************)
NextStageSkipping(s) ==
    CASE s = "correlate" -> "recommendations"
      [] s = "insights" -> "recommendations"
      [] s = "recommendations" -> "score"
      [] s = "score" -> "persist"

NextStage(s) ==
    CASE s = "correlate" -> "insights"
      [] s = "insights" -> "recommendations"
      [] s = "recommendations" -> "score"
      [] s = "score" -> "persist"

SyncStage ==
    /\ pc \in {"correlate", "insights", "recommendations", "score"}
    /\ \E ok \in BOOLEAN :
         IF ok
         THEN /\ pc' = NextStage(pc)
              /\ trace' = Append(trace, NextStage(pc))
              /\ UNCHANGED raised
         ELSE /\ Fail("Exception")
              /\ UNCHANGED trace
    /\ UNCHANGED <<effStart, effEnd, include_raw_data, fetchTask, fetched,
                   warned, analyzeTask, analyzeInput, patterns,
                   correlatorArgs, added, committed, returned, lateWork,
                   finished>>
    /\ UNCHANGED fnVars

\* lines 141-149: Analysis(...) and session.add(analysis)
SessionAdd ==
    /\ pc = "persist"
    /\ added' = added + 1
    /\ pc' = "commit"
    /\ UNCHANGED <<effStart, effEnd, include_raw_data, fetchTask, fetched,
                   warned, analyzeTask, analyzeInput, patterns,
                   correlatorArgs, committed, returned, raised, trace,
                   lateWork, finished>>
    /\ UNCHANGED fnVars

\* line 150: await session.commit(), which commits or raises
SessionCommit ==
    /\ pc = "commit"
    /\ \E ok \in BOOLEAN :
         IF ok
         THEN /\ committed' = committed + 1
              /\ pc' = "return"
              /\ trace' = Append(trace, "return")
              /\ UNCHANGED raised
         ELSE /\ Fail("Exception")
              /\ UNCHANGED <<committed, trace>>
    /\ UNCHANGED <<effStart, effEnd, include_raw_data, fetchTask, fetched,
                   warned, analyzeTask, analyzeInput, patterns,
                   correlatorArgs, added, returned, lateWork,
                   finished>>
    /\ UNCHANGED fnVars

(***************************************************************************)
(* Lines 152-176: metrics, then AnalysisResult(...).  With                 *)
(* include_raw_data the raw_data argument is computed by                   *)
(* _prepare_raw_data, a call into self.data_processor.anonymize_data       *)
(* that returns or raises (the DataProcessor of core/engine/processor.py   *)
(* defines no anonymize_data: there the call raises AttributeError).       *)
(***************************************************************************)
PreparesRawData == include_raw_data

Return ==
    /\ pc = "return"
    /\ \E ok \in BOOLEAN :
         IF PreparesRawData /\ ~ok
         THEN /\ Fail("Exception")
              /\ UNCHANGED returned
         ELSE /\ pc' = "done"
              /\ returned' = TRUE
              /\ UNCHANGED raised
    /\ UNCHANGED <<effStart, effEnd, include_raw_data, fetchTask, fetched,
                   warned, analyzeTask, analyzeInput, patterns,
                   correlatorArgs, added, committed, trace, lateWork,
                   finished>>
    /\ UNCHANGED fnVars

Next ==
    \/ Start
    \/ \E d \in Domains : FetchStart(d)
    \/ \E d \in Domains : FetchFinish(d)
    \/ FetchJoin
    \/ FetchFail
    \/ \E d \in Domains : AnalyzeRun(d)
    \/ AnalyzeJoin
    \/ AnalyzeFail
    \/ SyncStage
    \/ SessionAdd
    \/ SessionCommit
    \/ Return

Spec == Init /\ [][Next]_vars

(***************************************************************************)
(* Properties of analyze_user_data (specification Spec).                   *)
(***************************************************************************)
IsPrefix(p, q) == Len(p) <= Len(q) /\ \A i \in 1..Len(p) : p[i] = q[i]

Entered(stage) == \E i \in 1..Len(trace) : trace[i] = stage

\* C1: if any step of the run raises, no Analysis record has been
\* committed and no AnalysisResult is returned; a record is committed only
\* in runs that return a result.
C1_NoCommitOnFailure ==
    pc = "failed" => (committed = 0 /\ ~returned)

\* C2: when the effective window has start_date >= end_date the run raises
\* the date-range error before any work: no fetch task, no analyze task,
\* no session.add and no commit exists in that run.
C2_InvalidRangeRejectedFirst ==
    (pc # "idle" /\ effStart >= effEnd) =>
        /\ pc = "failed"
        /\ raised = "ValueError"
        /\ \A d \in Domains : fetchTask[d] = "none" /\ analyzeTask[d] = "none"
        /\ added = 0
        /\ committed = 0
        /\ trace = <<>>

C2_Witness ==
    /\ pc = "failed"
    /\ raised = "ValueError"
    /\ effStart = effEnd

\* C3: _combine_patterns is never called before all three analyze tasks
\* have returned, in whatever order they finish.
C3_CorrelatorAfterAllAnalyses ==
    (Entered("correlate") \/ correlatorArgs # <<>>) =>
        \A d \in Domains : analyzeTask[d] = "done"

C3_Witness ==
    /\ pc = "correlate"
    /\ correlatorArgs # <<>>
    /\ \A d \in Domains : analyzeTask[d] = "done"

\* C4: once one of the three concurrent tasks of a fan-out has failed, no
\* sibling task that was still outstanding runs its work to completion.
C4_NoSiblingWorkAfterFailure ==
    lateWork = {}

\* C5: the stages are entered in the fixed order fetch, analyze, correlate,
\* insights, recommendations, score, persist, return, none skipped or
\* repeated, each after the previous one has finished; a successful run
\* adds and commits exactly one Analysis record.
C5_StageOrder ==
    /\ IsPrefix(trace, StageOrder)
    /\ Entered("analyze") => \A d \in Domains : fetchTask[d] = "done"
    /\ Entered("correlate") => \A d \in Domains : analyzeTask[d] = "done"
    /\ added <= 1
    /\ committed <= added
    /\ committed = 1 => Entered("persist")
    /\ pc = "done" => (trace = StageOrder /\ added = 1 /\ committed = 1)

C5_Witness ==
    /\ pc = "done"
    /\ returned
    /\ committed = 1

\* C6: a failed sufficiency check only logs the warning: the run enters
\* the analyze stage, and every analyze() receives exactly the data that
\* was fetched for its domain.
C6_InsufficiencyNotFatal ==
    warned =>
        /\ Entered("analyze")
        /\ \A d \in Domains : analyzeTask[d] # "none"
        /\ analyzeInput = fetched
        /\ \A d \in Domains :
             analyzeTask[d] = "done" => patterns[d] = PatternsOf(d, fetched[d])

C6_Witness ==
    /\ warned
    /\ pc = "done"
    /\ \E d \in Domains : fetched[d] = 0

(***************************************************************************)
(* SpecInsights : _rank_and_deduplicate_insights applied to a list of      *)
(*               generated insights.  An insight is a record; its id is    *)
(*               its position in generation order (uuid4 gives every       *)
(*               generated insight its own id); confidence is a number in  *)
(*               integer units.                                            *)
(***************************************************************************)
\* the (type, category, title) literals of the single-dimension builders
InsightTriples ==
    { [type |-> "behavior", category |-> "focus", title |-> "Low Focus Time"],
      [type |-> "financial", category |-> "spending_pattern",
       title |-> "Inconsistent Spending"],
      [type |-> "temporal", category |-> "schedule",
       title |-> "Irregular Schedule"] }

Severities == {"high", "medium", "low", "info"}

Triple(i) == [type |-> i.type, category |-> i.category, title |-> i.title]

\* _generate_insight_hash: the digest of "type:category:title" (the digest
\* itself is taken as collision-free)
GenerateInsightHash(i) == i.type \o ":" \o i.category \o ":" \o i.title

\* _severity_to_score
SeverityToScoreFlat(severity) ==
    CASE severity = "high" -> 3
      [] severity = "medium" -> 2
      [] OTHER -> 0

SeverityToScore(severity) ==
    CASE severity = "high" -> 3
      [] severity = "medium" -> 2
      [] severity = "low" -> 1
      [] OTHER -> 0

\* lines 572-579: keep an insight when its hash has not been seen
RECURSIVE DedupLoop(_, _, _, _)
DedupLoop(insights, k, seen, unique) ==
    IF k > Len(insights) THEN unique
    ELSE LET h == GenerateInsightHash(insights[k])
         IN IF h \notin seen
            THEN DedupLoop(insights, k + 1, seen \cup {h},
                           Append(unique, insights[k]))
            ELSE DedupLoop(insights, k + 1, seen, unique)

\* a deduplication that lets a later duplicate replace the earlier one
RECURSIVE DedupLastLoop(_, _, _)
DedupLastLoop(insights, k, unique) ==
    IF k > Len(insights) THEN unique
    ELSE LET h == GenerateInsightHash(insights[k])
             kept == SelectSeq(unique, LAMBDA u : GenerateInsightHash(u) # h)
         IN DedupLastLoop(insights, k + 1, Append(kept, insights[k]))

DeduplicateKeepLast(insights) == DedupLastLoop(insights, 1, <<>>)

Deduplicate(insights) == DedupLoop(insights, 1, {}, <<>>)

\* the sort key of line 584, compared as Python compares tuples
InsightKey(x) == <<SeverityToScore(x.severity), x.confidence>>

TupleLess(a, b) == a[1] < b[1] \/ (a[1] = b[1] /\ a[2] < b[2])

\* position at which sorted(..., reverse=True) places x in an already
\* ranked list: after every element whose key is not smaller (Python keeps
\* the original order of equal keys also when reverse=True)
RankPositionTiesFirst(ranked, x) ==
    LET smaller == { i \in 1..Len(ranked) :
                       ~TupleLess(InsightKey(x), InsightKey(ranked[i])) }
    IN IF smaller = {} THEN Len(ranked) + 1
       ELSE CHOOSE i \in smaller : \A j \in smaller : i <= j

RankPosition(ranked, x) ==
    LET smaller == { i \in 1..Len(ranked) :
                       TupleLess(InsightKey(ranked[i]), InsightKey(x)) }
    IN IF smaller = {} THEN Len(ranked) + 1
       ELSE CHOOSE i \in smaller : \A j \in smaller : i <= j

InsertAt(seq, pos, x) ==
    SubSeq(seq, 1, pos - 1) \o <<x>> \o SubSeq(seq, pos, Len(seq))

RECURSIVE RankLoop(_, _, _)
RankLoop(insights, k, ranked) ==
    IF k > Len(insights) THEN ranked
    ELSE RankLoop(insights, k + 1,
                  InsertAt(ranked, RankPosition(ranked, insights[k]),
                           insights[k]))

\* lines 582-586
RankInsights(unique_insights) == RankLoop(unique_insights, 1, <<>>)

\* _rank_and_deduplicate_insights
RankAndDeduplicateInsights(insights) == RankInsights(Deduplicate(insights))

\* one more generated insight, appended in generation order
AddInsight ==
    /\ fnPhase = "input"
    /\ Len(fnInput) < MaxInsights
    /\ \E t \in InsightTriples, sev \in Severities, c \in 0..MaxConfidence :
         fnInput' = Append(fnInput,
                           [id |-> Len(fnInput) + 1, type |-> t.type,
                            category |-> t.category, title |-> t.title,
                            severity |-> sev, confidence |-> c])
    /\ UNCHANGED <<fnOutput, fnPhase>>
    /\ UNCHANGED runVars

ApplyRankAndDeduplicate ==
    /\ fnPhase = "input"
    /\ fnOutput' = RankAndDeduplicateInsights(fnInput)
    /\ fnPhase' = "applied"
    /\ UNCHANGED fnInput
    /\ UNCHANGED runVars

NextInsights ==
    \/ AddInsight
    \/ ApplyRankAndDeduplicate

SpecInsights == Init /\ [][NextInsights]_vars

\* C7: the deduplicated list has no two insights with the same (type,
\* category, title), has one insight for every triple of the input, and
\* the survivor of each triple is its first occurrence in generation order.
C7_DedupFirstOccurrenceWins ==
    fnPhase = "applied" =>
        /\ \A i, j \in 1..Len(fnOutput) :
             Triple(fnOutput[i]) = Triple(fnOutput[j]) => i = j
        /\ { Triple(fnOutput[i]) : i \in 1..Len(fnOutput) }
             = { Triple(fnInput[i]) : i \in 1..Len(fnInput) }
        /\ \A i \in 1..Len(fnOutput) :
             /\ fnOutput[i] = fnInput[fnOutput[i].id]
             /\ \A k \in 1..Len(fnInput) :
                  Triple(fnInput[k]) = Triple(fnOutput[i])
                      => fnOutput[i].id <= k

C7_Witness ==
    /\ fnPhase = "applied"
    /\ Len(fnOutput) < Len(fnInput)
    /\ \E i, k \in 1..Len(fnInput) :
         /\ i < k
         /\ Triple(fnInput[i]) = Triple(fnInput[k])
         /\ TupleLess(InsightKey(fnInput[i]), InsightKey(fnInput[k]))
         /\ \E o \in 1..Len(fnOutput) : fnOutput[o] = fnInput[i]

\* C8: the returned list is ordered by severity score descending (high 3,
\* medium 2, low 1, anything else 0), then by confidence descending, and
\* insights with equal severity score and confidence keep their generation
\* order.
ScoreOf(severity) ==
    IF severity = "high" THEN 3
    ELSE IF severity = "medium" THEN 2
    ELSE IF severity = "low" THEN 1
    ELSE 0

C8_RankedBySeverityThenConfidence ==
    fnPhase = "applied" =>
        \A i, j \in 1..Len(fnOutput) :
            i < j =>
                LET a == fnOutput[i]
                    b == fnOutput[j]
                IN \/ ScoreOf(a.severity) > ScoreOf(b.severity)
                   \/ /\ ScoreOf(a.severity) = ScoreOf(b.severity)
                      /\ a.confidence > b.confidence
                   \/ /\ ScoreOf(a.severity) = ScoreOf(b.severity)
                      /\ a.confidence = b.confidence
                      /\ a.id < b.id

C8_Witness ==
    /\ fnPhase = "applied"
    /\ Len(fnOutput) = 3
    /\ \E i, j \in 1..Len(fnOutput) :
         /\ i < j
         /\ fnOutput[i].severity = fnOutput[j].severity
         /\ fnOutput[i].confidence = fnOutput[j].confidence
    /\ \E i \in 1..Len(fnOutput) : fnOutput[i].severity = "info"
    /\ fnOutput # Deduplicate(fnInput)

(***************************************************************************)
(* SpecRecs : _prioritize_recommendations applied to a list of             *)
(*            recommendations.  Scores are kept exact: base scores and     *)
(*            difficulty modifiers in tenths, impact in hundredths,        *)
(*            confidence_score in integer units.                           *)
(***************************************************************************)
RecTitles == {"Schedule Focus Blocks", "Set a Daily Budget"}
RecTypes == {"productivity", "time_management"}
RecDifficulties == {"easy", "hard"}

\* _calculate_impact_score: base_scores.get(type, 0.5)
BaseScore(type) ==
    CASE type = "productivity" -> 8
      [] type = "financial" -> 8
      [] type = "time_management" -> 7
      [] OTHER -> 5

\* _calculate_impact_score: difficulty_modifiers.get(difficulty, 0.7)
DifficultyModifier(difficulty) ==
    CASE difficulty = "easy" -> 10
      [] difficulty = "medium" -> 8
      [] difficulty = "hard" -> 6
      [] OTHER -> 7

CalculateImpactScore(rec) == BaseScore(rec.type) * DifficultyModifier(rec.difficulty)

\* lines 604-609: {**rec, "priority_score": impact * confidence}
ScoreRecommendation(rec) ==
    [f \in DOMAIN rec \cup {"priority_score"} |->
        IF f = "priority_score"
        THEN CalculateImpactScore(rec) * rec.confidence_score
        ELSE rec[f]]

\* position of x under sorted(key=priority_score, reverse=True)
PriorityPosition(sorted, x) ==
    LET smaller == { i \in 1..Len(sorted) :
                       sorted[i].priority_score < x.priority_score }
    IN IF smaller = {} THEN Len(sorted) + 1
       ELSE CHOOSE i \in smaller : \A j \in smaller : i <= j

RECURSIVE PrioritySortLoop(_, _, _)
PrioritySortLoop(recs, k, sorted) ==
    IF k > Len(recs) THEN sorted
    ELSE PrioritySortLoop(recs, k + 1,
            InsertAt(sorted, PriorityPosition(sorted, recs[k]), recs[k]))

\* lines 612-614
SortByPriority(scored) == PrioritySortLoop(scored, 1, <<>>)

\* lines 617-623: keep a recommendation when its title has not been seen
RECURSIVE TitleDedupLoop(_, _, _, _)
TitleDedupLoop(recs, k, seen_titles, unique) ==
    IF k > Len(recs) THEN unique
    ELSE IF recs[k].title \notin seen_titles
         THEN TitleDedupLoop(recs, k + 1, seen_titles \cup {recs[k].title},
                             Append(unique, recs[k]))
         ELSE TitleDedupLoop(recs, k + 1, seen_titles, unique)

DeduplicateByTitle(recs) == TitleDedupLoop(recs, 1, {}, <<>>)

\* a prioritization that removes duplicate titles before sorting
PrioritizeDedupFirst(recommendations) ==
    SortByPriority(
        DeduplicateByTitle(
            [k \in 1..Len(recommendations) |->
                ScoreRecommendation(recommendations[k])]))

\* _prioritize_recommendations
PrioritizeRecommendations(recommendations) ==
    DeduplicateByTitle(
        SortByPriority(
            [k \in 1..Len(recommendations) |->
                ScoreRecommendation(recommendations[k])]))

AddRecommendation ==
    /\ fnPhase = "input"
    /\ Len(fnInput) < MaxRecs
    /\ \E t \in RecTitles, ty \in RecTypes, df \in RecDifficulties,
          c \in 0..MaxConfidence :
         fnInput' = Append(fnInput,
                           [id |-> Len(fnInput) + 1, title |-> t, type |-> ty,
                            difficulty |-> df, confidence_score |-> c])
    /\ UNCHANGED <<fnOutput, fnPhase>>
    /\ UNCHANGED runVars

ApplyPrioritize ==
    /\ fnPhase = "input"
    /\ fnOutput' = PrioritizeRecommendations(fnInput)
    /\ fnPhase' = "applied"
    /\ UNCHANGED fnInput
    /\ UNCHANGED runVars

NextRecs ==
    \/ AddRecommendation
    \/ ApplyPrioritize

SpecRecs == Init /\ [][NextRecs]_vars

\* C9: the prioritized list is in non-increasing priority_score order, has
\* no two entries with the same title, and for each title of the input
\* keeps an entry whose priority_score is the maximum among the input
\* entries with that title.
PriorityOfInput(k) ==
    BaseScore(fnInput[k].type) * DifficultyModifier(fnInput[k].difficulty)
        * fnInput[k].confidence_score

C9_PrioritizedUniqueMax ==
    fnPhase = "applied" =>
        /\ \A i, j \in 1..Len(fnOutput) :
             i < j => fnOutput[i].priority_score >= fnOutput[j].priority_score
        /\ \A i, j \in 1..Len(fnOutput) :
             fnOutput[i].title = fnOutput[j].title => i = j
        /\ \A k \in 1..Len(fnInput) :
             \E i \in 1..Len(fnOutput) :
                /\ fnOutput[i].title = fnInput[k].title
                /\ fnOutput[i].priority_score >= PriorityOfInput(k)
                /\ fnOutput[i].priority_score = PriorityOfInput(fnOutput[i].id)
                /\ fnInput[fnOutput[i].id].title = fnOutput[i].title

C9_Witness ==
    /\ fnPhase = "applied"
    /\ Len(fnOutput) = 2
    /\ Len(fnInput) = 3
    /\ fnOutput[1].priority_score > fnOutput[2].priority_score
    /\ \E k \in 2..Len(fnInput) :
         /\ fnInput[k].title = fnInput[1].title
         /\ PriorityOfInput(k) > PriorityOfInput(1)
         /\ \E i \in 1..Len(fnOutput) : fnOutput[i].id = k

(***************************************************************************)
(* SpecScores : _calculate_pattern_scores applied to a list of combined    *)
(*              patterns.  A pattern type is the sequence of the pieces    *)
(*              of the type string between its "_" separators; strengths   *)
(*              are in integer units, weights in hundredths, and a         *)
(*              quotient is kept exact as numerator and denominator.       *)
(***************************************************************************)
ScoreKeys == {"productivity", "financial", "temporal"}

\* self.pattern_weights
PatternWeight(k) ==
    CASE k = "productivity" -> 35
      [] k = "financial" -> 35
      [] k = "temporal" -> 30

\* the types _combine_patterns gives: a domain name for a strong pattern,
\* "<column>_<column>" for a correlation
PatternTypes ==
    { <<"behavior">>, <<"financial">>, <<"temporal">>,
      <<"strength", "confidence">> }

\* pattern["type"].split("_")[0]
FirstPiece(type) == type[1]

\* lines 383-388
RECURSIVE ScoreLoop(_, _, _)
ScoreLoop(pats, k, scores) ==
    IF k > Len(pats) THEN scores
    ELSE LET pattern_type == FirstPiece(pats[k].type)
         IN IF pattern_type \in ScoreKeys
            THEN ScoreLoop(pats, k + 1,
                    [scores EXCEPT ![pattern_type] =
                        @ + pats[k].strength * PatternWeight(pattern_type)])
            ELSE ScoreLoop(pats, k + 1, scores)

MaxOf(S) == CHOOSE x \in S : \A y \in S : y <= x

\* Python's v / max_score
Divide(v, m) ==
    IF m = 0 THEN [error |-> "ZeroDivisionError"] ELSE [num |-> v, den |-> m]

\* line 392 without its guard
NormalizeUnguarded(v, max_score) == Divide(v, max_score)

\* line 392: v / max_score if max_score > 0 else 0
Normalize(v, max_score) ==
    IF max_score > 0 THEN Divide(v, max_score) ELSE [num |-> 0, den |-> 1]

\* _calculate_pattern_scores
CalculatePatternScores(pats) ==
    LET scores == ScoreLoop(pats, 1, [k \in ScoreKeys |-> 0])
        max_score == MaxOf({ scores[k] : k \in ScoreKeys })
    IN [k \in ScoreKeys |-> Normalize(scores[k], max_score)]

AddPattern ==
    /\ fnPhase = "input"
    /\ Len(fnInput) < MaxPatterns
    /\ \E ty \in PatternTypes, st \in 0..MaxStrength :
         fnInput' = Append(fnInput, [type |-> ty, strength |-> st])
    /\ UNCHANGED <<fnOutput, fnPhase>>
    /\ UNCHANGED runVars

ApplyCalculatePatternScores ==
    /\ fnPhase = "input"
    /\ fnOutput' = CalculatePatternScores(fnInput)
    /\ fnPhase' = "applied"
    /\ UNCHANGED fnInput
    /\ UNCHANGED runVars

NextScores ==
    \/ AddPattern
    \/ ApplyCalculatePatternScores

SpecScores == Init /\ [][NextScores]_vars

\* C10: every value of pattern_scores lies in [0,1]; when all domain
\* totals are zero (the empty list included) the function does not raise
\* and gives 0 for every domain.
AllTotalsZero ==
    \A k \in 1..Len(fnInput) :
        fnInput[k].strength = 0 \/ fnInput[k].type[1] \notin ScoreKeys

C10_ScoresInUnitInterval ==
    fnPhase = "applied" =>
        /\ \A k \in ScoreKeys :
             /\ DOMAIN fnOutput[k] = {"num", "den"}
             /\ fnOutput[k].den > 0
             /\ 0 <= fnOutput[k].num
             /\ fnOutput[k].num <= fnOutput[k].den
        /\ AllTotalsZero => \A k \in ScoreKeys : fnOutput[k].num = 0

C10_Witness ==
    /\ fnPhase = "applied"
    /\ fnOutput["financial"].num = fnOutput["financial"].den
    /\ fnOutput["temporal"].num > 0
    /\ fnOutput["temporal"].num < fnOutput["temporal"].den

C10_WitnessAllZero ==
    /\ fnPhase = "applied"
    /\ \E k \in 1..Len(fnInput) : fnInput[k].strength > 0
    /\ AllTotalsZero
    /\ \A k \in ScoreKeys : fnOutput[k].num = 0

\* C11: pattern_scores[domain] is the sum over the domain's combined
\* patterns of strength x domain weight, divided by the largest of the
\* three totals; patterns of type "behavior" count for the
\* productivity/behavior score with weight 0.35.
DomainScoreKey(piece) == IF piece = "behavior" THEN "productivity" ELSE piece

RECURSIVE DomainTotal(_, _, _)
DomainTotal(pats, k, key) ==
    IF k > Len(pats) THEN 0
    ELSE (IF DomainScoreKey(pats[k].type[1]) = key
          THEN pats[k].strength * PatternWeight(key) ELSE 0)
         + DomainTotal(pats, k + 1, key)

C11_ScoreIsWeightedDomainTotal ==
    fnPhase = "applied" =>
        LET largest == MaxOf({ DomainTotal(fnInput, 1, key) : key \in ScoreKeys })
        IN \A key \in ScoreKeys :
             IF largest > 0
             THEN fnOutput[key].num * largest
                    = DomainTotal(fnInput, 1, key) * fnOutput[key].den
             ELSE fnOutput[key].num = 0

(***************************************************************************)
(* SpecCorr : _find_significant_correlations and the loop of               *)
(*            _combine_patterns over its result (lines 219-236), applied   *)
(*            to a correlation matrix.  Coefficients are in thousandths;   *)
(*            a column label is the sequence of the pieces of its name     *)
(*            between "_" separators.                                      *)
(***************************************************************************)
correlation_threshold == 700

\* the columns of the concatenated pattern tables, in column order
CorrColumns == << <<"behavior">>, <<"financial">>, <<"focus", "time">> >>

CorrIndex == 1..Len(CorrColumns)

CorrPairs == { p \in CorrIndex \X CorrIndex : p[1] < p[2] }

CorrValues == {-1000, -700, -699, 0, 699, 700, 1000}

\* DataFrame.corr(): symmetric, 1 on the diagonal
CorrelationMatrix(v) ==
    [p \in CorrIndex \X CorrIndex |->
        IF p[1] = p[2] THEN 1000
        ELSE IF p[1] < p[2] THEN v[p] ELSE v[<<p[2], p[1]>>]]

Abs(x) == IF x < 0 THEN -x ELSE x

\* line 268 with a strict comparison
IsSignificantStrict(corr_value) == corr_value > correlation_threshold

\* line 268
IsSignificant(corr_value) == corr_value >= correlation_threshold

\* lines 264-269: the correlations dictionary of one column
ColumnCorrelations(matrix, col) ==
    LET keep == { idx \in CorrIndex :
                    col # idx /\ IsSignificant(Abs(matrix[<<idx, col>>])) }
    IN [idx \in keep |-> Abs(matrix[<<idx, col>>])]

\* _find_significant_correlations: only columns with a non-empty
\* dictionary get an entry
FindSignificantCorrelations(matrix) ==
    LET cols == { col \in CorrIndex :
                    DOMAIN ColumnCorrelations(matrix, col) # {} }
    IN [col \in cols |-> ColumnCorrelations(matrix, col)]

\* the keys of pattern_dfs (lines 205-209)
PatternDfKeys == { <<"behavior">>, <<"financial">>, <<"temporal">> }

\* lines 220-236: one pattern per (column, correlated column) entry, in
\* dictionary order; pattern_dfs[...] raises KeyError for a label that is
\* not a key of pattern_dfs
RECURSIVE CombineLoop(_, _, _, _)
CombineLoop(sig, col, idx, combined) ==
    IF col > Len(CorrColumns) THEN combined
    ELSE IF idx > Len(CorrColumns) THEN CombineLoop(sig, col + 1, 1, combined)
    ELSE IF col \in DOMAIN sig /\ idx \in DOMAIN sig[col]
         THEN IF CorrColumns[col] \in PatternDfKeys
                 /\ CorrColumns[idx] \in PatternDfKeys
              THEN CombineLoop(sig, col, idx + 1,
                     Append(combined,
                        [type |-> CorrColumns[col] \o CorrColumns[idx],
                         strength |-> sig[col][idx],
                         columns |-> <<col, idx>>,
                         correlation_coefficient |-> sig[col][idx]]))
              ELSE [error |-> "KeyError"]
         ELSE CombineLoop(sig, col, idx + 1, combined)

CombineCorrelated(sig) == CombineLoop(sig, 1, 1, <<>>)

InitCorr ==
    /\ RunInit
    /\ \E v \in [CorrPairs -> CorrValues] : fnInput = CorrelationMatrix(v)
    /\ fnOutput = <<>>
    /\ fnPhase = "input"

ApplyCorrelations ==
    /\ fnPhase = "input"
    /\ fnOutput' =
         [significant |-> FindSignificantCorrelations(fnInput),
          combined |-> CombineCorrelated(FindSignificantCorrelations(fnInput))]
    /\ fnPhase' = "applied"
    /\ UNCHANGED fnInput
    /\ UNCHANGED runVars

NextCorr == ApplyCorrelations

SpecCorr == InitCorr /\ [][NextCorr]_vars

\* C12: a pair of columns is reported as a significant correlation if and
\* only if the absolute value of its coefficient is >= 0.7: exactly 0.7 and
\* -0.7 are included, 0.699 is excluded.
Reported(col, idx) ==
    /\ col \in DOMAIN fnOutput.significant
    /\ idx \in DOMAIN fnOutput.significant[col]

C12_SignificantIffAtLeastThreshold ==
    fnPhase = "applied" =>
        \A col, idx \in CorrIndex :
            col # idx =>
                /\ Reported(col, idx) <=>
                     (fnInput[<<idx, col>>] >= 700 \/ fnInput[<<idx, col>>] <= -700)
                /\ Reported(col, idx) =>
                     fnOutput.significant[col][idx] \in {700, 1000}

C12_Witness ==
    /\ fnPhase = "applied"
    /\ fnInput[<<1, 2>>] = 700
    /\ fnInput[<<1, 3>>] = -700
    /\ fnInput[<<2, 3>>] = 699
    /\ Reported(1, 2)
    /\ Reported(3, 1)
    /\ ~Reported(2, 3)

\* C13: each unordered significant pair {A, B} yields exactly one
\* CombinedPattern in the output of _combine_patterns: never both an A_B
\* and a B_A pattern.
C13_OnePatternPerUnorderedPair ==
    (fnPhase = "applied" /\ DOMAIN fnOutput.combined # {"error"}) =>
        \A p \in CorrPairs :
            Abs(fnInput[p]) >= 700 =>
                Cardinality({ k \in DOMAIN fnOutput.combined :
                    fnOutput.combined[k].columns \in {p, <<p[2], p[1]>>} }) = 1

(***************************************************************************)
(* SpecRecurring : FinancialAnalyzer._analyze_recurring_transactions on    *)
(*                 the transactions of one merchant.  Dates are day        *)
(*                 numbers.  With m intervals of sum S and sum of squares  *)
(*                 Q, np.std(intervals) / avg_interval is                  *)
(*                 sqrt(m*Q - S*S) / S, kept exact as its square.          *)
(***************************************************************************)
pattern_detection_min_transactions == 5

IntervalChoices == {0, 4, 5, 6}

ScenarioTx == 20

RECURSIVE SumSeq(_)
SumSeq(seq) == IF seq = <<>> THEN 0 ELSE Head(seq) + SumSeq(Tail(seq))

SumSquares(seq) == SumSeq([i \in 1..Len(seq) |-> seq[i] * seq[i]])

Reverse(seq) == [i \in 1..Len(seq) |-> seq[Len(seq) + 1 - i]]

\* the dates of transactions that follow each other at the given intervals
DatesFrom(gaps) ==
    [i \in 1..(Len(gaps) + 1) |-> SumSeq(SubSeq(gaps, 1, i - 1))]

\* sorted(merchant_df["date"])
RECURSIVE SortAscending(_)
SortAscending(seq) ==
    IF seq = <<>> THEN <<>>
    ELSE LET rest == SortAscending(Tail(seq))
             before == SelectSeq(rest, LAMBDA x : x <= Head(seq))
             after == SelectSeq(rest, LAMBDA x : x > Head(seq))
         IN before \o <<Head(seq)>> \o after

\* the dates taken in the order of the rows
SortDatesNot(dates) == dates

SortDates(dates) == SortAscending(dates)

\* (dates[i+1] - dates[i]).days for i in range(len(dates)-1)
IntervalsOf(dates) ==
    [i \in 1..(Len(dates) - 1) |-> dates[i + 1] - dates[i]]

\* interval_std / avg_interval < 0.2; a zero average gives nan, and the
\* comparison is then false
RatioBelowFifth(intervals) ==
    LET m == Len(intervals)
        S == SumSeq(intervals)
        Q == SumSquares(intervals)
    IN S > 0 /\ 25 * (m * Q - S * S) < S * S

\* lines 241-264 for one merchant group
RecurringPatternsOf(rows) ==
    IF Len(rows) >= pattern_detection_min_transactions
    THEN LET dates == SortDates(rows)
             intervals == IntervalsOf(dates)
             m == Len(intervals)
             S == SumSeq(intervals)
             Q == SumSquares(intervals)
         IN IF intervals # <<>> /\ RatioBelowFifth(intervals)
            THEN << [type |-> "recurring_transaction",
                     strength_complement_sq |->
                        [num |-> m * Q - S * S, den |-> S * S],
                     transaction_count |-> Len(rows)] >>
            ELSE <<>>
    ELSE <<>>

GapSequences ==
    UNION { [1..m -> IntervalChoices] : m \in 0..(MaxTx - 1) }

\* 19 intervals: a of 29 days, c of 31 days, the others of 30 days
ScenarioGaps(a, c) ==
    [i \in 1..(ScenarioTx - 1) |->
        IF i <= a THEN 29 ELSE IF i <= a + c THEN 31 ELSE 30]

InitRecurring ==
    /\ RunInit
    /\ \E reversed \in BOOLEAN :
         \/ \E gaps \in GapSequences :
               fnInput = [gaps |-> gaps,
                          rows |-> IF reversed THEN Reverse(DatesFrom(gaps))
                                   ELSE DatesFrom(gaps)]
         \/ \E a \in 0..(ScenarioTx - 1) : \E c \in 0..(ScenarioTx - 1 - a) :
               fnInput = [gaps |-> ScenarioGaps(a, c),
                          rows |-> IF reversed
                                   THEN Reverse(DatesFrom(ScenarioGaps(a, c)))
                                   ELSE DatesFrom(ScenarioGaps(a, c))]
    /\ fnOutput = <<>>
    /\ fnPhase = "input"

ApplyRecurring ==
    /\ fnPhase = "input"
    /\ fnOutput' = RecurringPatternsOf(fnInput.rows)
    /\ fnPhase' = "applied"
    /\ UNCHANGED fnInput
    /\ UNCHANGED runVars

NextRecurring == ApplyRecurring

SpecRecurring == InitRecurring /\ [][NextRecurring]_vars

\* C14: a column or grouping with fewer than min_data_points (10) records
\* never yields a pattern (here: the transactions of one merchant).
C14_NoPatternBelowMinDataPoints ==
    (fnPhase = "applied" /\ Len(fnInput.rows) < 10) => fnOutput = <<>>

\* C18: a recurring_transaction pattern is emitted if and only if the
\* merchant has at least 5 transactions and stddev/mean of the day
\* intervals between its date-sorted transactions is < 0.2; its strength is
\* 1 minus that ratio, hence > 0.8; 20 transactions 30 +/- 1 days apart
\* give strength > 0.9.
GapsRegular ==
    LET m == Len(fnInput.gaps)
        S == SumSeq(fnInput.gaps)
        Q == SumSquares(fnInput.gaps)
    IN S > 0 /\ 25 * (m * Q - S * S) < S * S

C18_RecurringIffRegular ==
    fnPhase = "applied" =>
        /\ Len(fnOutput) = 1 <=> (Len(fnInput.rows) >= 5 /\ GapsRegular)
        /\ Len(fnOutput) <= 1
        /\ Len(fnOutput) = 1 =>
             LET r == fnOutput[1].strength_complement_sq
                 m == Len(fnInput.gaps)
                 S == SumSeq(fnInput.gaps)
                 Q == SumSquares(fnInput.gaps)
             IN /\ fnOutput[1].type = "recurring_transaction"
                /\ r.num * S * S = (m * Q - S * S) * r.den
                /\ 25 * r.num < r.den
        /\ (Len(fnInput.rows) = 20
              /\ \A i \in 1..Len(fnInput.gaps) : fnInput.gaps[i] \in {29, 30, 31})
             => /\ Len(fnOutput) = 1
                /\ 100 * fnOutput[1].strength_complement_sq.num
                     < fnOutput[1].strength_complement_sq.den

C18_Witness ==
    /\ fnPhase = "applied"
    /\ Len(fnInput.rows) = 20
    /\ fnInput.rows[1] > fnInput.rows[2]
    /\ \E i, j \in 1..Len(fnInput.gaps) :
         fnInput.gaps[i] = 29 /\ fnInput.gaps[j] = 31
    /\ Len(fnOutput) = 1
    /\ fnOutput[1].strength_complement_sq.num > 0

C18_WitnessBoundary ==
    /\ fnPhase = "applied"
    /\ fnInput.gaps = <<4, 6, 4, 6>>
    /\ fnOutput = <<>>

(***************************************************************************)
(* SpecGen : _generate_insights applied, twice in a row, to a list of      *)
(*           combined patterns.  A single-domain pattern carries           *)
(*           "pattern" (one metric and its values), a correlation pattern  *)
(*           carries "patterns" instead.  Strength and confidence are in   *)
(*           tenths.  uuid4() gives an id that was never given before:     *)
(*           the n-th call of the process gives n.                         *)
(***************************************************************************)
GenStrengths == {6, 15}

\* mean and population variance tests on integer values, n = Len(values)
MeanBelow(values, bound) ==
    Len(values) > 0 /\ SumSeq(values) < bound * Len(values)

VarianceTimesNSquared(values) ==
    Len(values) * SumSquares(values) - SumSeq(values) * SumSeq(values)

\* _analyze_behavior_pattern: "focus_time" with an average under 45
AnalyzeBehaviorPattern(pattern_data, strength, uuid) ==
    IF pattern_data.metric = "focus_time" /\ MeanBelow(pattern_data.values, 45)
    THEN << [id |-> uuid, type |-> "behavior", category |-> "focus",
             title |-> "Low Focus Time",
             severity |-> IF MeanBelow(pattern_data.values, 30)
                          THEN "high" ELSE "medium",
             confidence |-> strength] >>
    ELSE <<>>

\* np.std(values) / np.mean(values) > bound_num / bound_den, for a
\* positive mean
VolatilityAbove(values, bound_num, bound_den) ==
    /\ SumSeq(values) > 0
    /\ bound_den * bound_den * VarianceTimesNSquared(values)
         > bound_num * bound_num * SumSeq(values) * SumSeq(values)

\* _analyze_financial_pattern: "discretionary_spending" with volatility
\* above 0.3
AnalyzeFinancialPattern(pattern_data, strength, uuid) ==
    IF /\ pattern_data.metric = "discretionary_spending"
       /\ VolatilityAbove(pattern_data.values, 3, 10)
    THEN << [id |-> uuid, type |-> "financial",
             category |-> "spending_pattern",
             title |-> "Inconsistent Spending",
             severity |-> IF VolatilityAbove(pattern_data.values, 5, 10)
                          THEN "high" ELSE "medium",
             confidence |-> strength] >>
    ELSE <<>>

\* _calculate_schedule_consistency(values) < bound_num / bound_den, where
\* consistency = 1 - min(std / 8, 1) and the empty list gives 0
ConsistencyBelow(values, bound_num, bound_den) ==
    IF values = <<>> THEN TRUE
    ELSE LET n == Len(values)
             k == bound_den - bound_num
         IN bound_den * bound_den * VarianceTimesNSquared(values)
              > 64 * k * k * n * n

\* _analyze_temporal_pattern: "active_hours" with consistency under 0.7
AnalyzeTemporalPattern(pattern_data, strength, uuid) ==
    IF /\ pattern_data.metric = "active_hours"
       /\ ConsistencyBelow(pattern_data.values, 7, 10)
    THEN << [id |-> uuid, type |-> "temporal", category |-> "schedule",
             title |-> "Irregular Schedule",
             severity |-> IF ConsistencyBelow(pattern_data.values, 5, 10)
                          THEN "high" ELSE "medium",
             confidence |-> strength] >>
    ELSE <<>>

Returned(insights) == [raised |-> FALSE, insights |-> insights]

Raised == [raised |-> TRUE, insights |-> <<>>]

\* _generate_single_dimension_insights: pattern["pattern"] raises KeyError
\* on a pattern without that key
GenerateSingleDimensionInsights(pattern, uuid) ==
    IF "pattern" \notin DOMAIN pattern THEN Raised
    ELSE IF pattern.type = <<"behavior">>
         THEN Returned(AnalyzeBehaviorPattern(pattern.pattern, pattern.strength, uuid))
    ELSE IF pattern.type = <<"financial">>
         THEN Returned(AnalyzeFinancialPattern(pattern.pattern, pattern.strength, uuid))
    ELSE IF pattern.type = <<"temporal">>
         THEN Returned(AnalyzeTemporalPattern(pattern.pattern, pattern.strength, uuid))
    ELSE Returned(<<>>)

\* _generate_behavior_temporal_insights: pattern["patterns"] maps each of the
\* two domains to the columns of its table; the hourly analysis it would
\* call on the two columns is not defined in analyzer.py
GenerateBehaviorTemporalInsights(pattern, uuid) ==
    IF \/ "patterns" \notin DOMAIN pattern
       \/ "behavior" \notin DOMAIN pattern.patterns
       \/ "temporal" \notin DOMAIN pattern.patterns
    THEN Raised
    ELSE IF /\ "productivity" \in pattern.patterns.behavior
            /\ "hour_of_day" \in pattern.patterns.temporal
         THEN Raised
         ELSE Returned(<<>>)

\* pattern["type"].startswith(prefix), the prefix being two whole pieces
StartsWith(type, first, second) ==
    Len(type) >= 2 /\ type[1] = first /\ type[2] = second

\* lines 315-323 (the builders of the behavior_financial and
\* temporal_financial branches are not part of analyzer.py)
BuildInsights(pattern, uuid) ==
    CASE StartsWith(pattern.type, "behavior", "temporal") ->
            GenerateBehaviorTemporalInsights(pattern, uuid)
      [] /\ ~StartsWith(pattern.type, "behavior", "financial")
         /\ ~StartsWith(pattern.type, "temporal", "financial")
         /\ ~StartsWith(pattern.type, "behavior", "temporal") ->
            GenerateSingleDimensionInsights(pattern, uuid)

\* the loop goes on with the next pattern after a caught exception
NextAfterErrorBreak(k, n) == n + 1

NextAfterError(k, n) == k + 1

\* lines 310-333; uuids is the number of ids given so far
RECURSIVE GenerateLoop(_, _, _, _)
GenerateLoop(combined, k, insights, uuids) ==
    IF k > Len(combined)
    THEN [insights |-> RankAndDeduplicateInsights(insights), uuids |-> uuids]
    ELSE LET r == BuildInsights(combined[k], uuids + 1)
         IN IF r.raised
            THEN GenerateLoop(combined, NextAfterError(k, Len(combined)),
                              insights, uuids)
            ELSE GenerateLoop(combined, k + 1, insights \o r.insights,
                              uuids + Len(r.insights))

GenerateInsights(combined, uuids) == GenerateLoop(combined, 1, <<>>, uuids)

GenPatternData ==
    { [metric |-> "focus_time", values |-> <<20, 30>>],
      [metric |-> "focus_time", values |-> <<40>>],
      [metric |-> "focus_time", values |-> <<50>>],
      [metric |-> "discretionary_spending", values |-> <<10, 50>>],
      [metric |-> "discretionary_spending", values |-> <<10, 30>>],
      [metric |-> "active_hours", values |-> <<2, 12>>],
      [metric |-> "active_hours", values |-> <<9, 9>>] }

DomainOfMetric(metric) ==
    CASE metric = "focus_time" -> <<"behavior">>
      [] metric = "discretionary_spending" -> <<"financial">>
      [] metric = "active_hours" -> <<"temporal">>

\* columns of a table built from a list of patterns
PatternColumns ==
    {"type", "name", "description", "strength", "metadata", "confidence",
     "support"}

\* what _combine_patterns appends: strong single-domain patterns and
\* correlation patterns
GenPatterns ==
    { [type |-> DomainOfMetric(pd.metric), strength |-> st, pattern |-> pd] :
        pd \in GenPatternData, st \in GenStrengths }
    \cup { [type |-> <<"financial", "behavior">>, strength |-> 7,
            patterns |-> [financial |-> PatternColumns,
                          behavior |-> PatternColumns]],
           [type |-> <<"behavior", "temporal">>, strength |-> 7,
            patterns |-> [behavior |-> PatternColumns,
                          temporal |-> PatternColumns]] }

AddGenPattern ==
    /\ fnPhase = "input"
    /\ Len(fnInput) < MaxGenPatterns
    /\ \E pat \in GenPatterns : fnInput' = Append(fnInput, pat)
    /\ UNCHANGED <<fnOutput, fnPhase>>
    /\ UNCHANGED runVars

\* one more call of _generate_insights on the same list
RunGenerateInsights ==
    /\ Len(fnOutput) < 2
    /\ LET given == IF fnOutput = <<>> THEN 0
                    ELSE fnOutput[Len(fnOutput)].uuids
       IN fnOutput' = Append(fnOutput, GenerateInsights(fnInput, given))
    /\ fnPhase' = "applied"
    /\ UNCHANGED fnInput
    /\ UNCHANGED runVars

NextGen ==
    \/ AddGenPattern
    \/ RunGenerateInsights

SpecGen == Init /\ [][NextGen]_vars

\* C15: two runs of _generate_insights on the same list of combined
\* patterns give identical lists: same id, type, category, title, severity
\* and confidence, in the same order.
C15_TwoRunsIdentical ==
    Len(fnOutput) = 2 => fnOutput[1].insights = fnOutput[2].insights

\* C19: when the builder of one pattern raises, _generate_insights still
\* returns the deduplicated, ranked insights of all the other patterns,
\* with nothing from the failing pattern, and the patterns after the
\* failing one are processed.
BuilderRaises(pat) == BuildInsights(pat, 1).raised

C19_BuilderFailureIsolated ==
    Len(fnOutput) >= 1 =>
        fnOutput[1].insights
            = GenerateInsights(
                SelectSeq(fnInput, LAMBDA pat : ~BuilderRaises(pat)), 0).insights

C19_Witness ==
    /\ Len(fnOutput) >= 1
    /\ Len(fnInput) >= 2
    /\ BuilderRaises(fnInput[1])
    /\ ~BuilderRaises(fnInput[2])
    /\ Len(fnOutput[1].insights) = 1

(***************************************************************************)
(* SpecFocus : BehaviorAnalyzer._identify_focus_sessions on a table of     *)
(*             activity rows and on a reordering of the same rows.         *)
(*             Timestamps and durations are in minutes.                    *)
(***************************************************************************)
focus_session_threshold == 25

ActivityRows == [timestamp : {0, 5, 13, 43}, duration : {10, 25}]

IndexPermutations(n) ==
    { f \in [1..n -> 1..n] : \A i, j \in 1..n : f[i] = f[j] => i = j }

Reorder(rows, f) == [i \in 1..Len(rows) |-> rows[f[i]]]

\* sort_values("timestamp") leaves the rows in the order given
SortValuesNot(rows) == {rows}

\* sort_values("timestamp"): the default sort is not stable, rows with the
\* same timestamp come out in any order
SortValues(rows) ==
    { Reorder(rows, f) : f \in
        { g \in IndexPermutations(Len(rows)) :
            \A i, j \in 1..Len(rows) :
                i < j => rows[g[i]].timestamp <= rows[g[j]].timestamp } }

NoSession == [open |-> FALSE]

NewSession(activity) ==
    [open |-> TRUE, start_time |-> activity.timestamp,
     duration |-> activity.duration, activity_count |-> 1,
     last_timestamp |-> activity.timestamp]

\* a session is kept when its duration reaches the threshold
CloseSession(current, focus_sessions) ==
    IF current.open /\ current.duration >= focus_session_threshold
    THEN Append(focus_sessions,
                [start_time |-> current.start_time,
                 duration |-> current.duration,
                 activity_count |-> current.activity_count])
    ELSE focus_sessions

RECURSIVE IdentifyLoop(_, _, _, _)
IdentifyLoop(sorted_activities, k, current, focus_sessions) ==
    IF k > Len(sorted_activities) THEN CloseSession(current, focus_sessions)
    ELSE LET activity == sorted_activities[k]
         IN IF ~current.open
            THEN IdentifyLoop(sorted_activities, k + 1,
                              NewSession(activity), focus_sessions)
            ELSE IF activity.timestamp - current.last_timestamp <= 5
            THEN IdentifyLoop(sorted_activities, k + 1,
                    [current EXCEPT
                        !.duration = @ + activity.duration,
                        !.activity_count = @ + 1,
                        !.last_timestamp = activity.timestamp],
                    focus_sessions)
            ELSE IdentifyLoop(sorted_activities, k + 1, NewSession(activity),
                              CloseSession(current, focus_sessions))

\* the session lists _identify_focus_sessions can return for a table
IdentifyFocusSessions(activity_data) ==
    { IdentifyLoop(sorted, 1, NoSession, <<>>) :
        sorted \in SortValues(activity_data) }

InitFocus ==
    /\ RunInit
    /\ \E n \in 1..MaxRows : \E rows \in [1..n -> ActivityRows] :
          fnInput = rows
    /\ fnOutput = <<>>
    /\ fnPhase = "input"

\* the same rows are analysed in the given order and in another order
ApplyIdentifyFocusSessions ==
    /\ fnPhase = "input"
    /\ \E f \in IndexPermutations(Len(fnInput)) :
         \E first \in IdentifyFocusSessions(fnInput) :
           \E second \in IdentifyFocusSessions(Reorder(fnInput, f)) :
              fnOutput' = [reordered |-> Reorder(fnInput, f),
                           first |-> first, second |-> second]
    /\ fnPhase' = "applied"
    /\ UNCHANGED fnInput
    /\ UNCHANGED runVars

NextFocus == ApplyIdentifyFocusSessions

SpecFocus == InitFocus /\ [][NextFocus]_vars

\* C16: _identify_focus_sessions returns the same sessions (start times,
\* durations, activity counts) for every ordering of the input rows.
C16_SessionsIndependentOfRowOrder ==
    fnPhase = "applied" => fnOutput.first = fnOutput.second

\* rows given out of timestamp order, two of them merged into a session
C16_Witness ==
    /\ fnPhase = "applied"
    /\ fnOutput.reordered # fnInput
    /\ \E i \in 1..(Len(fnInput) - 1) :
          fnInput[i].timestamp > fnInput[i + 1].timestamp
    /\ \E i \in 1..Len(fnOutput.first) : fnOutput.first[i].activity_count = 2

(***************************************************************************)
(* SpecBudget : FinancialAnalyzer._analyze_budget_patterns on a list of    *)
(*              budget categories, each with a limit and the actual        *)
(*              spending.  Quotients are [num, den] records, the           *)
(*              threshold is in hundredths.                                *)
(***************************************************************************)
budget_variance_threshold == 15

BudgetLimits == {-100, 0, 100, 500}

BudgetActuals == {0, 84, 85, 100, 115, 116, 425, 575, 650}

\* variance = (actual - limit) / limit if limit > 0 else 0
Variance(limit, actual) ==
    IF limit > 0 THEN [num |-> actual - limit, den |-> limit]
    ELSE [num |-> 0, den |-> 1]

\* abs(variance) >= threshold
ExceedsThresholdInclusive(variance) ==
    100 * Abs(variance.num) >= budget_variance_threshold * variance.den

\* abs(variance) > threshold
ExceedsThreshold(variance) ==
    100 * Abs(variance.num) > budget_variance_threshold * variance.den

RECURSIVE BudgetLoop(_, _, _)
BudgetLoop(budgets, k, out) ==
    IF k > Len(budgets) THEN out
    ELSE LET variance == Variance(budgets[k].limit, budgets[k].actual)
         IN IF ExceedsThreshold(variance)
            THEN BudgetLoop(budgets, k + 1,
                    Append(out,
                       [type |-> IF variance.num > 0 THEN "over_budget"
                                 ELSE "under_budget",
                        strength |-> [num |-> Abs(variance.num),
                                      den |-> variance.den],
                        category |-> k]))
            ELSE BudgetLoop(budgets, k + 1, out)

AnalyzeBudgetPatterns(budgets) == BudgetLoop(budgets, 1, <<>>)

InitBudget ==
    /\ RunInit
    /\ \E n \in 1..MaxBudgets :
         \E budgets \in [1..n -> [limit : BudgetLimits, actual : BudgetActuals]] :
            fnInput = budgets
    /\ fnOutput = <<>>
    /\ fnPhase = "input"

ApplyAnalyzeBudgetPatterns ==
    /\ fnPhase = "input"
    /\ fnOutput' = AnalyzeBudgetPatterns(fnInput)
    /\ fnPhase' = "applied"
    /\ UNCHANGED fnInput
    /\ UNCHANGED runVars

NextBudget == ApplyAnalyzeBudgetPatterns

SpecBudget == InitBudget /\ [][NextBudget]_vars

PatternsOfCategory(k) ==
    { i \in DOMAIN fnOutput : fnOutput[i].category = k }

\* C17: a category with limit > 0 gives a pattern iff
\* |actual - limit| / limit > 0.15 (exactly 0.15 gives none); the pattern is
\* over_budget when actual > limit, under_budget when actual < limit, with
\* strength |actual - limit| / limit (limit 500, actual 650: over_budget,
\* strength 0.30); a category with limit <= 0 gives no pattern.
C17_BudgetPatternIffVarianceAboveThreshold ==
    fnPhase = "applied" =>
      \A k \in DOMAIN fnInput :
        LET limit == fnInput[k].limit
            actual == fnInput[k].actual
            found == PatternsOfCategory(k)
        IN /\ limit <= 0 => found = {}
           /\ limit > 0 =>
                /\ (found # {}) <=> (100 * Abs(actual - limit) > 15 * limit)
                /\ Cardinality(found) <= 1
                /\ \A i \in found :
                     /\ actual > limit => fnOutput[i].type = "over_budget"
                     /\ actual < limit => fnOutput[i].type = "under_budget"
                     /\ fnOutput[i].strength.num * limit
                          = Abs(actual - limit) * fnOutput[i].strength.den
                     /\ fnOutput[i].strength.den > 0
           /\ (limit = 500 /\ actual = 650) =>
                \E i \in found :
                   /\ fnOutput[i].type = "over_budget"
                   /\ 100 * fnOutput[i].strength.num
                        = 30 * fnOutput[i].strength.den

\* limit 500 with actual 650 is flagged next to a category at exactly 0.15
C17_Witness ==
    /\ fnPhase = "applied"
    /\ \E k, j \in DOMAIN fnInput :
         /\ fnInput[k] = [limit |-> 500, actual |-> 650]
         /\ PatternsOfCategory(k) # {}
         /\ fnInput[j].limit > 0
         /\ 100 * Abs(fnInput[j].actual - fnInput[j].limit)
              = 15 * fnInput[j].limit
         /\ PatternsOfCategory(j) = {}

(***************************************************************************)
(* SpecScenario : the behavior path of analyze_user_data on 14 days of     *)
(*                activity, 30 activities of 40 minutes starting at 9am    *)
(*                with less than 5 minutes between the end of one and the  *)
(*                start of the next, and nothing else: focus sessions,     *)
(*                behavior patterns, pattern combination, insights.        *)
(*                There is no financial data; the temporal table cannot    *)
(*                give an insight of type behavior and is left out.        *)
(***************************************************************************)
\* the activities of one day, from 9:00 on
DayRows(day, count, gap) ==
    [i \in 1..count |->
        [timestamp |-> day * 1440 + 540 + (i - 1) * (40 + gap),
         duration |-> 40]]

\* two activities a day, three on the days in extra, in timestamp order
RECURSIVE ScenarioRowsFrom(_, _, _)
ScenarioRowsFrom(day, gap, extra) ==
    IF day > 13 THEN <<>>
    ELSE DayRows(day, IF day \in extra THEN 3 ELSE 2, gap)
            \o ScenarioRowsFrom(day + 1, gap, extra)

ScenarioRows(gap, first_extra) ==
    ScenarioRowsFrom(0, gap, {first_extra, (first_extra + 1) % 14})

\* timestamp.hour
HourOf(timestamp) == (timestamp % 1440) \div 60

\* groupby(hour)["duration"].sum() for one hour; starts is the column the
\* hour is taken from
HourlySum(durations, starts, hour) ==
    SumSeq([i \in DOMAIN durations |->
              IF HourOf(starts[i]) = hour THEN durations[i] ELSE 0])

HoursOf(starts) == { HourOf(starts[i]) : i \in DOMAIN starts }

\* idxmax(): the first hour, in hour order, with the largest sum
PeakHour(durations, starts) ==
    CHOOSE h \in HoursOf(starts) :
        \A g \in HoursOf(starts) :
            \/ HourlySum(durations, starts, g) < HourlySum(durations, starts, h)
            \/ (HourlySum(durations, starts, g) = HourlySum(durations, starts, h)
                /\ h <= g)

\* _analyze_focus_patterns: strength = peak_duration / hourly_focus.mean()
AnalyzeFocusPatterns(focus_sessions) ==
    IF focus_sessions = <<>> THEN <<>>
    ELSE LET durations == [i \in DOMAIN focus_sessions |->
                              focus_sessions[i].duration]
             starts == [i \in DOMAIN focus_sessions |->
                              focus_sessions[i].start_time]
             peak_hour == PeakHour(durations, starts)
         IN << [type |-> "focus_time", name |-> "peak_focus_hours",
                strength |->
                   [num |-> HourlySum(durations, starts, peak_hour)
                              * Cardinality(HoursOf(starts)),
                    den |-> SumSeq(durations)],
                metadata |->
                   [peak_hour |-> peak_hour,
                    peak_duration |-> HourlySum(durations, starts, peak_hour),
                    session_count |-> Len(focus_sessions)]] >>

\* _analyze_work_habits: the hours whose activity is above the hourly mean
AnalyzeWorkHabits(activity_data) ==
    LET durations == [i \in DOMAIN activity_data |-> activity_data[i].duration]
        starts == [i \in DOMAIN activity_data |-> activity_data[i].timestamp]
        hours == HoursOf(starts)
        active_hours ==
            { h \in hours :
                HourlySum(durations, starts, h) * Cardinality(hours)
                    > SumSeq(durations) }
    IN IF active_hours = {} THEN <<>>
       ELSE << [type |-> "work_routine", name |-> "active_hours",
                strength |-> [num |-> Cardinality(active_hours), den |-> 24],
                metadata |->
                   [start_hour |-> CHOOSE h \in active_hours :
                                      \A g \in active_hours : h <= g,
                    end_hour |-> CHOOSE h \in active_hours :
                                      \A g \in active_hours : g <= h,
                    peak_hour |-> PeakHour(durations, starts)]] >>

\* min(1.0, num / den), for den > 0
AtMostOne(q) == IF q.num > q.den THEN [num |-> 1, den |-> 1] ELSE q

\* lines 464-470
ConfidenceFactor(metadata) ==
    IF "session_count" \in DOMAIN metadata
    THEN AtMostOne([num |-> metadata.session_count, den |-> 20])
    ELSE IF "frequency" \in DOMAIN metadata
    THEN AtMostOne([num |-> metadata.frequency, den |-> 10])
    ELSE [num |-> 7, den |-> 10]

\* _calculate_pattern_metrics without the support field
CalculatePatternMetrics(pats) ==
    [i \in DOMAIN pats |->
        LET strength == AtMostOne(pats[i].strength)
            factor == ConfidenceFactor(pats[i].metadata)
        IN [type |-> pats[i].type, name |-> pats[i].name,
            strength |-> strength,
            confidence |-> [num |-> factor.num * strength.num,
                            den |-> factor.den * strength.den],
            metadata |-> pats[i].metadata]]

\* BehaviorAnalyzer.analyze with no application usage
AnalyzeBehavior(focus_sessions, activity_data) ==
    CalculatePatternMetrics(
        AnalyzeFocusPatterns(focus_sessions) \o AnalyzeWorkHabits(activity_data))

\* _find_strong_patterns on a table of fewer than min_data_points rows: no
\* column has enough values (larger tables do not occur here)
FindStrongPatterns(pattern_df) ==
    CASE Len(pattern_df) < min_data_points -> <<>>

\* _combine_patterns: the correlation patterns, then the strong patterns of
\* the behavior table
CombinePatterns(matrix, behavior_patterns) ==
    LET correlated == CombineCorrelated(FindSignificantCorrelations(matrix))
    IN IF DOMAIN correlated = {"error"} THEN correlated
       ELSE correlated \o FindStrongPatterns(behavior_patterns)

\* the correlations of the pattern tables: nothing correlates with the
\* empty financial table
ScenarioMatrices ==
    { CorrelationMatrix([p \in CorrPairs |->
                            IF p = <<1, 3>> THEN c ELSE 0]) :
        c \in CorrValues }

InitScenario ==
    /\ RunInit
    /\ \E gap \in 0..4, first_extra \in 0..13, matrix \in ScenarioMatrices :
          fnInput = [activity_data |-> ScenarioRows(gap, first_extra),
                     matrix |-> matrix]
    /\ fnOutput = <<>>
    /\ fnPhase = "input"

\* get_user_data: the rows are in timestamp order and all timestamps
\* differ, so sort_values leaves them as they are
ScenarioIdentifySessions ==
    /\ fnPhase = "input"
    /\ fnOutput' = [focus_sessions |->
                      IdentifyLoop(fnInput.activity_data, 1, NoSession, <<>>)]
    /\ fnPhase' = "fetched"
    /\ UNCHANGED fnInput
    /\ UNCHANGED runVars

ScenarioAnalyze ==
    /\ fnPhase = "fetched"
    /\ fnOutput' = [behavior_patterns |->
                      AnalyzeBehavior(fnOutput.focus_sessions,
                                      fnInput.activity_data)]
    /\ fnPhase' = "analyzed"
    /\ UNCHANGED fnInput
    /\ UNCHANGED runVars

ScenarioCombine ==
    /\ fnPhase = "analyzed"
    /\ fnOutput' = [combined |->
                      CombinePatterns(fnInput.matrix,
                                      fnOutput.behavior_patterns)]
    /\ fnPhase' = "combined"
    /\ UNCHANGED fnInput
    /\ UNCHANGED runVars

\* an exception of _combine_patterns ends analyze_user_data
ScenarioGenerate ==
    /\ fnPhase = "combined"
    /\ fnOutput' =
         IF DOMAIN fnOutput.combined = {"error"}
         THEN [raised |-> TRUE, insights |-> <<>>]
         ELSE [raised |-> FALSE,
               insights |-> GenerateInsights(fnOutput.combined, 0).insights]
    /\ fnPhase' = "applied"
    /\ UNCHANGED fnInput
    /\ UNCHANGED runVars

NextScenario ==
    \/ ScenarioIdentifySessions
    \/ ScenarioAnalyze
    \/ ScenarioCombine
    \/ ScenarioGenerate

SpecScenario == InitScenario /\ [][NextScenario]_vars

\* C20: for the 14-day 9am-11am focus cluster, analyze_user_data returns at
\* least one insight of type behavior whose category is "focus" or
\* "peak_focus_hours", that references hour 9 or 10, and whose confidence
\* is > 0.  (The formula asks for the type, the category and the
\* confidence only.)
C20_ScenarioGivesFocusInsight ==
    fnPhase = "applied" =>
       /\ ~fnOutput.raised
       /\ \E i \in DOMAIN fnOutput.insights :
            /\ fnOutput.insights[i].type = "behavior"
            /\ fnOutput.insights[i].category \in {"focus", "peak_focus_hours"}
            /\ fnOutput.insights[i].confidence > 0

(***************************************************************************)
(* SpecWatcher : SystemWatcher run by a caller that awaits start() and     *)
(*               then stop().  start() is a coroutine run inside the       *)
(*               caller's task; other tasks of the event loop run only     *)
(*               while that task is suspended (in the callback or in       *)
(*               asyncio.sleep).  fnInput is the set of processes of the   *)
(*               system, fnOutput the state of the watcher and the caller. *)
(***************************************************************************)
Pids == {1, 2}

\* _detect_changes: started and ended processes against the cache
DetectChanges(current_processes, process_cache) ==
    { <<"started", pid>> : pid \in current_processes \ process_cache }
    \cup { <<"ended", pid>> : pid \in process_cache \ current_processes }

InitWatcher ==
    /\ RunInit
    /\ fnInput \in (SUBSET Pids) \ {{}}
    /\ fnOutput = [caller |-> "created", loop |-> "idle", running |-> FALSE,
                   process_cache |-> {}, events |-> {}]
    /\ fnPhase = "input"

\* await watcher.start(): line 22
CallStart ==
    /\ fnOutput.caller = "created"
    /\ fnOutput' = [fnOutput EXCEPT !.caller = "in_start", !.running = TRUE,
                                    !.loop = "test"]
    /\ UNCHANGED <<fnInput, fnPhase>>
    /\ UNCHANGED runVars

\* line 23: while self.running; start() returns to its caller only here
WhileTest ==
    /\ fnOutput.loop = "test"
    /\ fnOutput' = IF fnOutput.running
                   THEN [fnOutput EXCEPT !.loop = "poll"]
                   ELSE [fnOutput EXCEPT !.loop = "returned",
                                         !.caller = "after_start"]
    /\ UNCHANGED <<fnInput, fnPhase>>
    /\ UNCHANGED runVars

\* lines 25-28
PollProcesses ==
    /\ fnOutput.loop = "poll"
    /\ LET events == DetectChanges(fnInput, fnOutput.process_cache)
       IN fnOutput' = [fnOutput EXCEPT
                          !.process_cache = fnInput,
                          !.events = events,
                          !.loop = IF events # {} THEN "callback" ELSE "sleep"]
    /\ UNCHANGED <<fnInput, fnPhase>>
    /\ UNCHANGED runVars

\* line 29 completes
CallbackReturns ==
    /\ fnOutput.loop = "callback"
    /\ fnOutput' = [fnOutput EXCEPT !.loop = "sleep", !.events = {}]
    /\ UNCHANGED <<fnInput, fnPhase>>
    /\ UNCHANGED runVars

\* line 29 raises (a callback that is not a coroutine function raises
\* TypeError here): lines 32-33, the loop goes on without sleeping
CallbackRaises ==
    /\ fnOutput.loop = "callback"
    /\ fnOutput' = [fnOutput EXCEPT !.loop = "test", !.events = {}]
    /\ UNCHANGED <<fnInput, fnPhase>>
    /\ UNCHANGED runVars

\* line 31 completes
SleepEnds ==
    /\ fnOutput.loop = "sleep"
    /\ fnOutput' = [fnOutput EXCEPT !.loop = "test"]
    /\ UNCHANGED <<fnInput, fnPhase>>
    /\ UNCHANGED runVars

\* the caller's await watcher.stop(), after start() has returned
CallerStop ==
    /\ fnOutput.caller = "after_start"
    /\ fnOutput' = [fnOutput EXCEPT !.caller = "done", !.running = FALSE]
    /\ UNCHANGED <<fnInput, fnPhase>>
    /\ UNCHANGED runVars

\* stop() called by another task, while the caller's task is suspended
OtherTaskStop ==
    /\ fnOutput.loop \in {"callback", "sleep"}
    /\ fnOutput.running
    /\ fnOutput' = [fnOutput EXCEPT !.running = FALSE]
    /\ UNCHANGED <<fnInput, fnPhase>>
    /\ UNCHANGED runVars

\* processes start and end in the system
ProcessesChange ==
    /\ \E procs \in SUBSET Pids : procs # fnInput /\ fnInput' = procs
    /\ UNCHANGED <<fnOutput, fnPhase>>
    /\ UNCHANGED runVars

NextWatcher ==
    \/ CallStart
    \/ WhileTest
    \/ PollProcesses
    \/ CallbackReturns
    \/ CallbackRaises
    \/ SleepEnds
    \/ CallerStop
    \/ OtherTaskStop
    \/ ProcessesChange

SpecWatcher == InitWatcher /\ [][NextWatcher]_vars

\* the event loop keeps running the caller's task; nothing obliges another
\* task to call stop() or the processes to change
SpecWatcherFair ==
    /\ SpecWatcher
    /\ WF_vars(CallStart)
    /\ WF_vars(WhileTest)
    /\ WF_vars(PollProcesses)
    /\ WF_vars(CallbackReturns \/ CallbackRaises)
    /\ WF_vars(SleepEnds)
    /\ WF_vars(CallerStop)

\* C21: a caller that awaits SystemWatcher.start() and then awaits
\* SystemWatcher.stop() always terminates.
C21_CallerTerminates == <>(fnOutput.caller = "done")

(***************************************************************************)
(* Further properties of Spec.                                             *)
(***************************************************************************)
\* C22: the insufficient-data warning is logged if and only if at least
\* one domain has fewer than min_data_points usable records in the fetched
\* window; with at least 10 records in every domain no warning is logged.
C22_WarningIffTooFewRecords ==
    Entered("analyze") =>
        (warned <=> \E d \in Domains : fetched[d] < min_data_points)

(***************************************************************************)
(* Further properties of SpecCorr.  pd.concat puts the columns of the      *)
(* behavior table first, then those of the financial table, then those of  *)
(* the temporal table; _combine_patterns never looks at which table a      *)
(* column comes from.                                                      *)
(***************************************************************************)
TableRank(table) ==
    CASE table = "behavior" -> 1
      [] table = "financial" -> 2
      [] table = "temporal" -> 3

\* the ways the columns of the concatenation can be shared out between the
\* three tables
ColumnTableChoices ==
    { t \in [CorrIndex -> Domains] :
        \A i, j \in CorrIndex : i < j => TableRank(t[i]) <= TableRank(t[j]) }

pattern_significance_threshold == 6

ColumnValues == <<0, 3, 4, 20>>

Repeat(v, k) == [i \in 1..k |-> v]

\* the column with counts[j] times the j-th value, then the missing values
ColumnOf(counts, nulls) ==
    Repeat(ColumnValues[1], counts[1]) \o Repeat(ColumnValues[2], counts[2])
      \o Repeat(ColumnValues[3], counts[3]) \o Repeat(ColumnValues[4], counts[4])
      \o Repeat(None, nulls)

\* pattern_df[column].dropna()
DropNa(column) == SelectSeq(column, LAMBDA v : v # None)

\* n * (n - 1) * std^2
ScaledVariance(data) == VarianceTimesNSquared(data)

\* the divisor max(std, 1), squared
DivisorSquaredMax(data) ==
    LET n == Len(data)
    IN IF ScaledVariance(data) >= 100 * n * (n - 1)
       THEN [num |-> ScaledVariance(data), den |-> n * (n - 1)]
       ELSE [num |-> 100, den |-> 1]

\* line 290: the divisor (std if std > 0 else 1), squared
DivisorSquared(data) ==
    LET n == Len(data)
    IN IF ScaledVariance(data) > 0
       THEN [num |-> ScaledVariance(data), den |-> n * (n - 1)]
       ELSE [num |-> 100, den |-> 1]

\* abs(mean)
AbsMean(data) == [num |-> Abs(SumSeq(data)), den |-> Len(data)]

\* mean / divisor >= threshold / 10, on the squares
StrengthAtLeast(mean, divisor_sq, threshold) ==
    100 * mean.num * mean.num * divisor_sq.den
        >= threshold * threshold * mean.den * mean.den * divisor_sq.num

\* line 294: strength / 2 > 1.0, on the squares
StrengthHalfAboveOne(mean, divisor_sq) ==
    mean.num * mean.num * divisor_sq.den
        > 4 * mean.den * mean.den * divisor_sq.num

\* lines 282-304 for one column: the strong patterns it adds
StrongPatternsOfColumn(column) ==
    LET data == DropNa(column)
    IN IF Len(data) >= min_data_points
          /\ StrengthAtLeast(AbsMean(data), DivisorSquared(data),
                             pattern_significance_threshold)
       THEN << [strength |-> [mean |-> AbsMean(data),
                              divisor_sq |-> DivisorSquared(data)],
                confidence_capped |->
                    StrengthHalfAboveOne(AbsMean(data), DivisorSquared(data)),
                support |-> [num |-> Len(data), den |-> Len(column)]] >>
       ELSE <<>>

InitStrong ==
    /\ RunInit
    /\ \E counts \in [1..4 -> 0..MaxColumn], nulls \in 0..1 :
         /\ counts[1] + counts[2] + counts[3] + counts[4] + nulls <= MaxColumn
         /\ counts[1] + counts[2] + counts[3] + counts[4] + nulls >= 1
         /\ fnInput = ColumnOf(counts, nulls)
    /\ fnOutput = <<>>
    /\ fnPhase = "input"

ApplyFindStrongPatterns ==
    /\ fnPhase = "input"
    /\ fnOutput' = StrongPatternsOfColumn(fnInput)
    /\ fnPhase' = "applied"
    /\ UNCHANGED fnInput
    /\ UNCHANGED runVars

NextStrong == ApplyFindStrongPatterns

SpecStrong == InitStrong /\ [][NextStrong]_vars

NonNull == DropNa(fnInput)

\* C24: a strong pattern is emitted for a numeric column if and only if
\* the column has at least min_data_points non-null values and
\* |mean| / max(std, 1) >= 0.6, and the emitted strength equals
\* |mean| / max(std, 1): for a standard deviation strictly between 0 and 1
\* the divisor is 1.
C24_StrongIffMeanOverMaxStdOne ==
    fnPhase = "applied" =>
        /\ (fnOutput # <<>>) <=>
              /\ Len(NonNull) >= 10
              /\ StrengthAtLeast(AbsMean(NonNull), DivisorSquaredMax(NonNull), 6)
        /\ fnOutput # <<>> =>
              /\ fnOutput[1].strength.mean.num * Len(NonNull)
                    = Abs(SumSeq(NonNull)) * fnOutput[1].strength.mean.den
              /\ fnOutput[1].strength.divisor_sq.num
                        * DivisorSquaredMax(NonNull).den
                    = DivisorSquaredMax(NonNull).num
                        * fnOutput[1].strength.divisor_sq.den

StartsByEndToStartGap(rows) ==
    { rows[i].timestamp : i \in
        { j \in DOMAIN rows :
            \A k \in DOMAIN rows :
                (/\ rows[k].timestamp < rows[j].timestamp
                 /\ \A l \in DOMAIN rows :
                       ~(/\ rows[k].timestamp < rows[l].timestamp
                         /\ rows[l].timestamp < rows[j].timestamp))
                => rows[j].timestamp
                     - (rows[k].timestamp + rows[k].duration) > 5 } }

\* C26: two timestamp-adjacent activities are merged into the same session
\* if and only if the gap between the end of the earlier one (timestamp
\* plus duration) and the start of the later one is <= 5 minutes.  Stated
\* on tables with distinct timestamps whose activities all last 25
\* minutes, so that every session is returned: the sessions start exactly
\* at the rows that do not continue their predecessor.
C26_MergeOnEndToStartGap ==
    (/\ fnPhase = "applied"
     /\ \A i \in DOMAIN fnInput : fnInput[i].duration = 25
     /\ \A i, j \in DOMAIN fnInput :
           i # j => fnInput[i].timestamp # fnInput[j].timestamp)
    => { fnOutput.first[i].start_time : i \in DOMAIN fnOutput.first }
          = StartsByEndToStartGap(fnInput)

(***************************************************************************)
(* SpecFrame : BehaviorAnalyzer.analyze called on the behavior_data that   *)
(*             get_user_data returned (no application usage).  fnInput is  *)
(*             the object passed in, which the callee reaches by           *)
(*             reference; a table is its set of columns and its rows.      *)
(***************************************************************************)
Table(columns, rows) == [columns |-> columns, rows |-> rows]

\* line 434: activity_data["hour"] = activity_data["timestamp"].dt.hour,
\* an assignment into the caller's table
WithHourColumn(table) ==
    Table(table.columns \cup {"hour"},
          [i \in DOMAIN table.rows |->
              [timestamp |-> table.rows[i].timestamp,
               duration |-> table.rows[i].duration,
               hour |-> HourOf(table.rows[i].timestamp)]])

InitFrame ==
    /\ RunInit
    /\ \E n \in 1..MaxRows : \E rows \in [1..n -> ActivityRows] :
         \E sessions \in IdentifyFocusSessions(rows) :
            fnInput = [activity_data |-> Table({"timestamp", "duration"}, rows),
                       focus_sessions |-> sessions]
    /\ fnOutput = <<>>
    /\ fnPhase = "input"

\* analyze(behavior_data): the patterns returned, and what the call leaves
\* in behavior_data
ApplyBehaviorAnalyze ==
    /\ fnPhase = "input"
    /\ fnOutput' = [before |-> fnInput,
                    patterns |-> AnalyzeBehavior(fnInput.focus_sessions,
                                                 fnInput.activity_data.rows)]
    /\ fnInput' = [fnInput EXCEPT
                      !.activity_data = WithHourColumn(fnInput.activity_data)]
    /\ fnPhase' = "applied"
    /\ UNCHANGED runVars

NextFrame == ApplyBehaviorAnalyze

SpecFrame == InitFrame /\ [][NextFrame]_vars

RecCategories == <<"productivity", "financial", "time_management", "focus">>

BuilderCategories == {"productivity", "financial", "time_management"}

\* rec.update({...}): the keys given are set, the others kept
UpdateMetadata(rec, source_insights, confidence_score) ==
    [f \in DOMAIN rec \cup {"source_insights", "confidence_score"} |->
        IF f = "source_insights" THEN source_insights
        ELSE IF f = "confidence_score" THEN confidence_score
        ELSE rec[f]]

\* lines 342-373: one pass per category; lines 357-366 run over the whole
\* list built so far
RECURSIVE RecommendationLoop(_, _, _)
RecommendationLoop(groups, k, recommendations) ==
    IF k > Len(groups) THEN recommendations
    ELSE IF groups[k].raises
    THEN RecommendationLoop(groups, k + 1, recommendations)
    ELSE LET extended ==
                 IF groups[k].category \in BuilderCategories
                 THEN recommendations \o groups[k].built
                 ELSE recommendations
         IN RecommendationLoop(groups, k + 1,
               [i \in DOMAIN extended |->
                   UpdateMetadata(extended[i], groups[k].insight_ids,
                                  groups[k].confidence)])

GenerateRecommendations(groups) ==
    PrioritizeRecommendations(RecommendationLoop(groups, 1, <<>>))

\* the k-th group of the dictionary: its own insights, and a builder that
\* returns no or one recommendation of its category
GroupChoices(k, c) ==
    { [category |-> RecCategories[c], insight_ids |-> <<2 * k - 1, 2 * k>>,
       built |-> b, raises |-> r, confidence |-> conf] :
        b \in { <<>>, << [title |-> RecCategories[c], type |-> RecCategories[c],
                          difficulty |-> "easy"] >> },
        r \in BOOLEAN, conf \in 0..MaxConfidence }

AddGroup ==
    /\ fnPhase = "input"
    /\ Len(fnInput) < MaxGroups
    /\ \E c \in DOMAIN RecCategories :
         /\ \A i \in DOMAIN fnInput : fnInput[i].category # RecCategories[c]
         /\ \E g \in GroupChoices(Len(fnInput) + 1, c) :
               fnInput' = Append(fnInput, g)
    /\ UNCHANGED <<fnOutput, fnPhase>>
    /\ UNCHANGED runVars

ApplyGenerateRecommendations ==
    /\ fnPhase = "input"
    /\ fnOutput' = GenerateRecommendations(fnInput)
    /\ fnPhase' = "applied"
    /\ UNCHANGED fnInput
    /\ UNCHANGED runVars

NextRecGen ==
    \/ AddGroup
    \/ ApplyGenerateRecommendations

SpecRecGen == Init /\ [][NextRecGen]_vars

\* C29: each recommendation's source_insights is exactly the list of ids
\* of the insights of the category group it was built from, and its
\* confidence_score is the one computed in that group's pass: a later
\* category changes neither.
C29_SourceInsightsOfOwnGroup ==
    fnPhase = "applied" =>
        \A i \in DOMAIN fnOutput :
            \A k \in DOMAIN fnInput :
                fnInput[k].category = fnOutput[i].type =>
                    /\ fnOutput[i].source_insights = fnInput[k].insight_ids
                    /\ fnOutput[i].confidence_score = fnInput[k].confidence

(***************************************************************************)
(* SpecSegment : get_day_segment applied to the hour of each activity, as  *)
(*               TemporalAnalyzer.get_user_data does.                      *)
(***************************************************************************)
Hours == 0..23

\* TemporalAnalyzer.day_segments: segment -> (first hour, hour after the
\* last); the night range wraps around midnight
day_segments ==
    [early_morning |-> <<5, 8>>, morning |-> <<8, 12>>,
     afternoon |-> <<12, 17>>, evening |-> <<17, 21>>, night |-> <<21, 5>>]

\* get_day_segment with ranges closed at both ends
GetDaySegmentClosed(hour) ==
    IF 5 <= hour /\ hour <= 8 THEN "early_morning"
    ELSE IF 8 <= hour /\ hour <= 12 THEN "morning"
    ELSE IF 12 <= hour /\ hour <= 17 THEN "afternoon"
    ELSE IF 17 <= hour /\ hour <= 21 THEN "evening"
    ELSE "night"

\* get_day_segment
GetDaySegment(hour) ==
    IF 5 <= hour /\ hour < 8 THEN "early_morning"
    ELSE IF 8 <= hour /\ hour < 12 THEN "morning"
    ELSE IF 12 <= hour /\ hour < 17 THEN "afternoon"
    ELSE IF 17 <= hour /\ hour < 21 THEN "evening"
    ELSE "night"

AddActivityHour ==
    /\ fnPhase = "input"
    /\ Len(fnInput) < MaxHours
    /\ \E hour \in Hours : fnInput' = Append(fnInput, hour)
    /\ UNCHANGED <<fnOutput, fnPhase>>
    /\ UNCHANGED runVars

\* temporal.py line 61, for every activity
ApplyGetDaySegment ==
    /\ fnPhase = "input"
    /\ fnOutput' = [i \in DOMAIN fnInput |-> GetDaySegment(fnInput[i])]
    /\ fnPhase' = "applied"
    /\ UNCHANGED fnInput
    /\ UNCHANGED runVars

NextSegment ==
    \/ AddActivityHour
    \/ ApplyGetDaySegment

SpecSegment == Init /\ [][NextSegment]_vars

\* hour lies in the half-open range from range[1] to range[2], around
\* midnight when range[1] > range[2]
InHalfOpenRange(hour, range) ==
    IF range[1] < range[2]
    THEN range[1] <= hour /\ hour < range[2]
    ELSE range[1] <= hour \/ hour < range[2]

\* C30: get_day_segment maps every hour 0..23 to exactly one of the five
\* day segments, following the half-open ranges EarlyMorning [5,8),
\* Morning [8,12), Afternoon [12,17), Evening [17,21) and Night for hours
\* 21..23 and 0..4.
C30_DaySegmentByHalfOpenRanges ==
    fnPhase = "applied" =>
        \A i \in DOMAIN fnInput :
            /\ fnOutput[i] \in DOMAIN day_segments
            /\ \A segment \in DOMAIN day_segments :
                  InHalfOpenRange(fnInput[i], day_segments[segment])
                      <=> segment = fnOutput[i]
            /\ fnOutput[i] = "night" <=> fnInput[i] \in (21..23) \cup (0..4)

C30_Witness ==
    /\ fnPhase = "applied"
    /\ fnInput = <<8, 4>>
    /\ fnOutput = <<"morning", "night">>

====
